---- MODULE Spec2Model ----
(***************************************************************************)
(* Model of the two programs the notebook writes out and runs:             *)
(*   vector_addition_parallel.cu   (kernel vectorAddParallel and its main) *)
(*   vector_addition_sequential.cpp (vectorAddSequential and its main)     *)
(* The two programs are separate processes; they are modelled side by side *)
(* on the same inputs so that their outputs can be compared.  Variables    *)
(* of the sequential program carry the prefix s_, the others belong to the *)
(* parallel program.                                                       *)
(*                                                                         *)
(* Floats are modelled by small integers and float addition by integer     *)
(* addition (both programs use the same single-precision addition).        *)
(* Timestamps are logical: a timestamp is the number of host events that   *)
(* have completed when it is taken.                                        *)
(***************************************************************************)
EXTENDS Integers, Sequences, FiniteSets, TLC

\* Largest vector length explored (the programs fix size = 1000 * 1000).
MaxN == 3

\* Threads per block.  The program uses blockSize(256, 1, 1); the model
\* scales the block down so that the interleavings of a grid are enumerable.
BlockDim == 2

\* Fill values of the input vectors (1.0f and 2.0f in the programs).
Vals == {1, 2}

\* Contents a read of never-written device memory may deliver.
Garbage == {0, 9}

\* Marker (no float value) of a device cell that cudaMalloc returned and
\* nobody wrote yet.
Uninit == -1

\* cudaError_t values and the text cudaGetErrorString gives for them.
cudaSuccess == "no error"
cudaErrorInvalidConfiguration == "invalid configuration argument"
cudaErrorLaunchFailure == "unspecified launch failure"

Indices(n) == 0 .. (n - 1)

\* Device addresses a thread of any launched grid can compute.
Addr == 0 .. (MaxN + BlockDim - 1)

VARIABLES
    size,        \* int size (same value in both programs)
    h_a, h_b,    \* host input vectors
    h_c,         \* host output vector of the parallel program
    pc,          \* position of the parallel program's main
    d_a, d_b, d_c,   \* device buffers: <<>> while not allocated
    allocated,   \* device pointers cudaMalloc has returned
    freed,       \* device pointers cudaFree has released
    gridSize,    \* gridSize.x
    launched,    \* TRUE once the kernel launch was accepted
    pending,     \* threads <<blockIdx.x, threadIdx.x>> launched and not finished
    lastError,   \* the runtime's last-error slot
    cudaError,   \* local cudaError of main
    accessed,    \* <<blockIdx, threadIdx, i>>: the thread read a[i], b[i] and wrote c[i]
    writes,      \* per device index, how many times a thread wrote c[i]
    log,         \* host events of the parallel program, in order
    start_time, end_time,   \* timestamps of the parallel program (-1: not taken)
    stdout, stderr, exit,   \* output and exit status of the parallel program (-1: running)
    s_pc, s_i, s_n, s_c,    \* sequential program: position, loop variables, output vector
    s_adds,      \* additions the sequential loop performed
    s_clock, s_start, s_end,   \* sequential program: logical clock and timestamps
    s_stdout, s_exit

vars == <<size, h_a, h_b, h_c, pc, d_a, d_b, d_c, allocated, freed, gridSize,
          launched, pending, lastError, cudaError, accessed, writes, log,
          start_time, end_time, stdout, stderr, exit,
          s_pc, s_i, s_n, s_c, s_adds, s_clock, s_start, s_end, s_stdout, s_exit>>

parVars == <<h_c, pc, d_a, d_b, d_c, allocated, freed, gridSize,
             launched, pending, lastError, cudaError, accessed, writes, log,
             start_time, end_time, stdout, stderr, exit>>

seqVars == <<s_pc, s_i, s_n, s_c, s_adds, s_clock, s_start, s_end, s_stdout, s_exit>>

inVars == <<size, h_a, h_b>>

\* Single-precision addition.
fadd(x, y) == x + y

Init ==
    /\ size \in 0 .. MaxN
    /\ h_a \in [Indices(size) -> Vals]
    /\ h_b \in [Indices(size) -> Vals]
    /\ h_c = [i \in Indices(size) |-> 0]
    /\ pc = "malloc_a"
    /\ d_a = <<>> /\ d_b = <<>> /\ d_c = <<>>
    /\ allocated = {} /\ freed = {}
    /\ gridSize = 0
    /\ launched = FALSE
    /\ pending = {}
    /\ lastError = cudaSuccess
    /\ cudaError = cudaSuccess
    /\ accessed = {}
    /\ writes = [i \in Addr |-> 0]
    /\ log = <<>>
    /\ start_time = -1 /\ end_time = -1
    /\ stdout = <<>> /\ stderr = <<>> /\ exit = -1
    /\ s_pc = "start_time"
    /\ s_i = 0 /\ s_n = 0
    /\ s_c = [i \in Indices(size) |-> 0]
    /\ s_adds = 0
    /\ s_clock = 0 /\ s_start = -1 /\ s_end = -1
    /\ s_stdout = <<>> /\ s_exit = -1

(***************************************************************************)
(* vector_addition_parallel.cu                                             *)
(***************************************************************************)

\* Every host statement of the parallel main leaves one event in the log.
Event(e) == log' = Append(log, e)

\* cudaMalloc(&d_a, size_bytes): the region is handed out unwritten.
MallocA ==
    /\ pc = "malloc_a"
    /\ d_a' = [i \in Indices(size) |-> Uninit]
    /\ allocated' = allocated \cup {"d_a"}
    /\ pc' = "malloc_b"
    /\ Event("cudaMalloc d_a")
    /\ UNCHANGED <<inVars, seqVars, h_c, d_b, d_c, freed, gridSize, launched, pending,
                   lastError, cudaError, accessed, writes, start_time, end_time,
                   stdout, stderr, exit>>

MallocB ==
    /\ pc = "malloc_b"
    /\ d_b' = [i \in Indices(size) |-> Uninit]
    /\ allocated' = allocated \cup {"d_b"}
    /\ pc' = "malloc_c"
    /\ Event("cudaMalloc d_b")
    /\ UNCHANGED <<inVars, seqVars, h_c, d_a, d_c, freed, gridSize, launched, pending,
                   lastError, cudaError, accessed, writes, start_time, end_time,
                   stdout, stderr, exit>>

MallocC ==
    /\ pc = "malloc_c"
    /\ d_c' = [i \in Indices(size) |-> Uninit]
    /\ allocated' = allocated \cup {"d_c"}
    /\ pc' = "h2d_a"
    /\ Event("cudaMalloc d_c")
    /\ UNCHANGED <<inVars, seqVars, h_c, d_a, d_b, freed, gridSize, launched, pending,
                   lastError, cudaError, accessed, writes, start_time, end_time,
                   stdout, stderr, exit>>

\* cudaMemcpy(d_a, h_a.data(), size_bytes, cudaMemcpyHostToDevice)
MemcpyH2D_a ==
    /\ pc = "h2d_a"
    /\ d_a' = [i \in Indices(size) |-> h_a[i]]
    /\ pc' = "h2d_b"
    /\ Event("cudaMemcpy H2D d_a")
    /\ UNCHANGED <<inVars, seqVars, h_c, d_b, d_c, allocated, freed, gridSize, launched,
                   pending, lastError, cudaError, accessed, writes, start_time, end_time,
                   stdout, stderr, exit>>

MemcpyH2D_b ==
    /\ pc = "h2d_b"
    /\ d_b' = [i \in Indices(size) |-> h_b[i]]
    /\ pc' = "grid"
    /\ Event("cudaMemcpy H2D d_b")
    /\ UNCHANGED <<inVars, seqVars, h_c, d_a, d_c, allocated, freed, gridSize, launched,
                   pending, lastError, cudaError, accessed, writes, start_time, end_time,
                   stdout, stderr, exit>>

\* dim3 gridSize((size + 255) / 256, 1, 1); dim3 blockSize(256, 1, 1);
GridDim ==
    /\ pc = "grid"
    /\ gridSize' = (size + (BlockDim - 1)) \div BlockDim
    /\ pc' = "start_time"
    /\ Event("dim3")
    /\ UNCHANGED <<inVars, seqVars, h_c, d_a, d_b, d_c, allocated, freed, launched,
                   pending, lastError, cudaError, accessed, writes, start_time, end_time,
                   stdout, stderr, exit>>

\* The start timestamp taken at the top of main (mutant): the timed interval
\* then covers the allocations and the input transfers.
StartTimer_AtTop ==
    /\ pc = "start_time"
    /\ start_time' = 0
    /\ pc' = "launch"
    /\ Event("now")
    /\ UNCHANGED <<inVars, seqVars, h_c, d_a, d_b, d_c, allocated, freed, gridSize,
                   launched, pending, lastError, cudaError, accessed, writes, end_time,
                   stdout, stderr, exit>>

\* auto start_time = std::chrono::high_resolution_clock::now();
StartTimer ==
    /\ pc = "start_time"
    /\ start_time' = Len(log) + 1
    /\ pc' = "launch"
    /\ Event("now")
    /\ UNCHANGED <<inVars, seqVars, h_c, d_a, d_b, d_c, allocated, freed, gridSize,
                   launched, pending, lastError, cudaError, accessed, writes, end_time,
                   stdout, stderr, exit>>

\* The threads of a grid of gridSize blocks of BlockDim threads.
Threads == {<<b, t>> : b \in 0 .. (gridSize - 1), t \in 0 .. (BlockDim - 1)}

\* vectorAddParallel<<<gridSize, blockSize>>>(d_a, d_b, d_c, size): the launch
\* is asynchronous.  The runtime rejects a grid with a zero dimension with
\* cudaErrorInvalidConfiguration and starts no thread.
Launch ==
    /\ pc = "launch"
    /\ IF gridSize >= 1
         THEN /\ pending' = Threads
              /\ launched' = TRUE
              /\ UNCHANGED lastError
         ELSE /\ lastError' = cudaErrorInvalidConfiguration
              /\ UNCHANGED <<pending, launched>>
    /\ pc' = "sync"
    /\ Event("launch")
    /\ UNCHANGED <<inVars, seqVars, h_c, d_a, d_b, d_c, allocated, freed, gridSize,
                   cudaError, accessed, writes, start_time, end_time,
                   stdout, stderr, exit>>

\* int i = threadIdx.x + blockDim.x * blockIdx.x;  (mutant: blockDim.x left out)
GlobalIndex_NoBlockDim(blockIdx, threadIdx) == threadIdx + blockIdx

\* int i = threadIdx.x + blockDim.x * blockIdx.x;
GlobalIndex(blockIdx, threadIdx) == threadIdx + BlockDim * blockIdx

\* The kernel thread without its bounds check (mutant): it touches c[i] for
\* every i it computes.
vectorAddParallel_NoGuard(blockIdx, threadIdx) ==
    /\ <<blockIdx, threadIdx>> \in pending
    /\ pending' = pending \ {<<blockIdx, threadIdx>>}
    /\ LET i == GlobalIndex(blockIdx, threadIdx)
       IN  /\ d_c' = IF i \in DOMAIN d_c
                       THEN [d_c EXCEPT ![i] = fadd(d_a[i], d_b[i])]
                       ELSE d_c
           /\ accessed' = accessed \cup {<<blockIdx, threadIdx, i>>}
           /\ writes' = [writes EXCEPT ![i] = @ + 1]
    /\ UNCHANGED <<inVars, seqVars, h_c, pc, d_a, d_b, allocated, freed, gridSize,
                   launched, lastError, cudaError, log, start_time, end_time,
                   stdout, stderr, exit>>

\* One thread of the kernel:
\*   int i = threadIdx.x + blockDim.x * blockIdx.x;
\*   if (i < n) { c[i] = a[i] + b[i]; }
vectorAddParallel(blockIdx, threadIdx) ==
    /\ <<blockIdx, threadIdx>> \in pending
    /\ pending' = pending \ {<<blockIdx, threadIdx>>}
    /\ LET i == GlobalIndex(blockIdx, threadIdx)
       IN  IF i < size
             THEN /\ d_c' = [d_c EXCEPT ![i] = fadd(d_a[i], d_b[i])]
                  /\ accessed' = accessed \cup {<<blockIdx, threadIdx, i>>}
                  /\ writes' = [writes EXCEPT ![i] = @ + 1]
             ELSE UNCHANGED <<d_c, accessed, writes>>
    /\ UNCHANGED <<inVars, seqVars, h_c, pc, d_a, d_b, allocated, freed, gridSize,
                   launched, lastError, cudaError, log, start_time, end_time,
                   stdout, stderr, exit>>

\* The device fails while the kernel has not been synchronised: the threads
\* that have not finished are abandoned and the runtime records the error.
DeviceFault ==
    /\ pc = "sync"
    /\ launched
    /\ lastError = cudaSuccess
    /\ lastError' = cudaErrorLaunchFailure
    /\ pending' = {}
    /\ UNCHANGED <<inVars, seqVars, h_c, pc, d_a, d_b, d_c, allocated, freed, gridSize,
                   launched, cudaError, accessed, writes, log, start_time, end_time,
                   stdout, stderr, exit>>

\* A synchronisation that does not wait for the threads (mutant).
Synchronize_NoWait ==
    /\ pc = "sync"
    /\ pc' = "getLastError"
    /\ Event("cudaDeviceSynchronize")
    /\ UNCHANGED <<inVars, seqVars, h_c, d_a, d_b, d_c, allocated, freed, gridSize,
                   launched, pending, lastError, cudaError, accessed, writes,
                   start_time, end_time, stdout, stderr, exit>>

\* cudaDeviceSynchronize(): returns once no launched thread is running.
Synchronize ==
    /\ pc = "sync"
    /\ pending = {}
    /\ pc' = "getLastError"
    /\ Event("cudaDeviceSynchronize")
    /\ UNCHANGED <<inVars, seqVars, h_c, d_a, d_b, d_c, allocated, freed, gridSize,
                   launched, pending, lastError, cudaError, accessed, writes,
                   start_time, end_time, stdout, stderr, exit>>

\* cudaError_t cudaError = cudaGetLastError(); (returns and resets the slot)
GetLastError ==
    /\ pc = "getLastError"
    /\ cudaError' = lastError
    /\ lastError' = cudaSuccess
    /\ pc' = "check"
    /\ Event("cudaGetLastError")
    /\ UNCHANGED <<inVars, seqVars, h_c, d_a, d_b, d_c, allocated, freed, gridSize,
                   launched, pending, accessed, writes, start_time, end_time,
                   stdout, stderr, exit>>

\* The error branch without its return (mutant): the message is written and
\* main carries on.
CheckError_NoReturn ==
    /\ pc = "check"
    /\ IF cudaError # cudaSuccess
         THEN /\ stderr' = Append(stderr, <<"CUDA error: ", cudaError>>)
              /\ Event("check failed")
         ELSE /\ Event("check ok")
              /\ UNCHANGED stderr
    /\ pc' = "d2h"
    /\ UNCHANGED <<inVars, seqVars, h_c, d_a, d_b, d_c, allocated, freed, gridSize,
                   launched, pending, lastError, cudaError, accessed, writes,
                   start_time, end_time, stdout, exit>>

\* if (cudaError != cudaSuccess) { std::cerr << "CUDA error: " << ...; return 1; }
CheckError ==
    /\ pc = "check"
    /\ IF cudaError # cudaSuccess
         THEN /\ stderr' = Append(stderr, <<"CUDA error: ", cudaError>>)
              /\ exit' = 1
              /\ pc' = "done"
              /\ Event("return 1")
         ELSE /\ pc' = "d2h"
              /\ Event("check ok")
              /\ UNCHANGED <<stderr, exit>>
    /\ UNCHANGED <<inVars, seqVars, h_c, d_a, d_b, d_c, allocated, freed, gridSize,
                   launched, pending, lastError, cudaError, accessed, writes,
                   start_time, end_time, stdout>>

\* A device-to-host copy one element short (mutant).
MemcpyD2H_Short ==
    /\ pc = "d2h"
    /\ h_c' = [i \in Indices(size) |->
                 IF i < size - 1 /\ d_c[i] # Uninit THEN d_c[i] ELSE h_c[i]]
    /\ pc' = "end_time"
    /\ Event("cudaMemcpy D2H d_c")
    /\ UNCHANGED <<inVars, seqVars, d_a, d_b, d_c, allocated, freed, gridSize,
                   launched, pending, lastError, cudaError, accessed, writes,
                   start_time, end_time, stdout, stderr, exit>>

\* Device indices of c no thread has written.
Unwritten == {i \in Indices(size) : d_c[i] = Uninit}

\* cudaMemcpy(h_c.data(), d_c, size_bytes, cudaMemcpyDeviceToHost): a cell
\* nobody wrote delivers whatever the device memory held.
MemcpyD2H ==
    /\ pc = "d2h"
    /\ \E g \in [Unwritten -> Garbage] :
          h_c' = [i \in Indices(size) |-> IF i \in Unwritten THEN g[i] ELSE d_c[i]]
    /\ pc' = "end_time"
    /\ Event("cudaMemcpy D2H d_c")
    /\ UNCHANGED <<inVars, seqVars, d_a, d_b, d_c, allocated, freed, gridSize,
                   launched, pending, lastError, cudaError, accessed, writes,
                   start_time, end_time, stdout, stderr, exit>>

\* auto end_time = std::chrono::high_resolution_clock::now();
EndTimer ==
    /\ pc = "end_time"
    /\ end_time' = Len(log) + 1
    /\ pc' = "print"
    /\ Event("now")
    /\ UNCHANGED <<inVars, seqVars, h_c, d_a, d_b, d_c, allocated, freed, gridSize,
                   launched, pending, lastError, cudaError, accessed, writes,
                   start_time, stdout, stderr, exit>>

\* std::cout << "Parallel Vector Addition took " << duration.count() << " milliseconds.\n";
PrintElapsed ==
    /\ pc = "print"
    /\ stdout' = Append(stdout, <<"Parallel Vector Addition took ",
                                  end_time - start_time, " milliseconds.">>)
    /\ pc' = "free_a"
    /\ Event("print")
    /\ UNCHANGED <<inVars, seqVars, h_c, d_a, d_b, d_c, allocated, freed, gridSize,
                   launched, pending, lastError, cudaError, accessed, writes,
                   start_time, end_time, stderr, exit>>

\* cudaFree(d_a); cudaFree(d_b); cudaFree(d_c);
FreeA ==
    /\ pc = "free_a"
    /\ freed' = freed \cup {"d_a"}
    /\ d_a' = <<>>
    /\ pc' = "free_b"
    /\ Event("cudaFree d_a")
    /\ UNCHANGED <<inVars, seqVars, h_c, d_b, d_c, allocated, gridSize,
                   launched, pending, lastError, cudaError, accessed, writes,
                   start_time, end_time, stdout, stderr, exit>>

FreeB ==
    /\ pc = "free_b"
    /\ freed' = freed \cup {"d_b"}
    /\ d_b' = <<>>
    /\ pc' = "free_c"
    /\ Event("cudaFree d_b")
    /\ UNCHANGED <<inVars, seqVars, h_c, d_a, d_c, allocated, gridSize,
                   launched, pending, lastError, cudaError, accessed, writes,
                   start_time, end_time, stdout, stderr, exit>>

FreeC ==
    /\ pc = "free_c"
    /\ freed' = freed \cup {"d_c"}
    /\ d_c' = <<>>
    /\ pc' = "return"
    /\ Event("cudaFree d_c")
    /\ UNCHANGED <<inVars, seqVars, h_c, d_a, d_b, allocated, gridSize,
                   launched, pending, lastError, cudaError, accessed, writes,
                   start_time, end_time, stdout, stderr, exit>>

\* return 0;
Return0 ==
    /\ pc = "return"
    /\ exit' = 0
    /\ pc' = "done"
    /\ Event("return 0")
    /\ UNCHANGED <<inVars, seqVars, h_c, d_a, d_b, d_c, allocated, freed, gridSize,
                   launched, pending, lastError, cudaError, accessed, writes,
                   start_time, end_time, stdout, stderr>>

(***************************************************************************)
(* vector_addition_sequential.cpp                                          *)
(***************************************************************************)

\* auto start_time = std::chrono::high_resolution_clock::now();
SeqStartTimer ==
    /\ s_pc = "start_time"
    /\ s_start' = s_clock
    /\ s_clock' = s_clock + 1
    /\ s_pc' = "call"
    /\ UNCHANGED <<inVars, parVars, s_i, s_n, s_c, s_adds, s_end, s_stdout, s_exit>>

\* vectorAddSequential(h_a, h_b, h_c): int n = a.size(); int i = 0;
SeqCall ==
    /\ s_pc = "call"
    /\ s_n' = Cardinality(DOMAIN h_a)
    /\ s_i' = 0
    /\ s_clock' = s_clock + 1
    /\ s_pc' = "loop"
    /\ UNCHANGED <<inVars, parVars, s_c, s_adds, s_start, s_end, s_stdout, s_exit>>

\* The loop stopping one element early, i < n - 1 (mutant).
vectorAddSequential_OffByOne ==
    /\ s_pc = "loop"
    /\ IF s_i < s_n - 1
         THEN /\ s_c' = [s_c EXCEPT ![s_i] = fadd(h_a[s_i], h_b[s_i])]
              /\ s_i' = s_i + 1
              /\ s_adds' = s_adds + 1
              /\ UNCHANGED s_pc
         ELSE /\ s_pc' = "end_time"
              /\ UNCHANGED <<s_c, s_i, s_adds>>
    /\ s_clock' = s_clock + 1
    /\ UNCHANGED <<inVars, parVars, s_n, s_start, s_end, s_stdout, s_exit>>

\* for (int i = 0; i < n; ++i) { c[i] = a[i] + b[i]; }
\* One iteration of the loop, or its exit.
vectorAddSequential ==
    /\ s_pc = "loop"
    /\ IF s_i < s_n
         THEN /\ s_c' = [s_c EXCEPT ![s_i] = fadd(h_a[s_i], h_b[s_i])]
              /\ s_i' = s_i + 1
              /\ s_adds' = s_adds + 1
              /\ UNCHANGED s_pc
         ELSE /\ s_pc' = "end_time"
              /\ UNCHANGED <<s_c, s_i, s_adds>>
    /\ s_clock' = s_clock + 1
    /\ UNCHANGED <<inVars, parVars, s_n, s_start, s_end, s_stdout, s_exit>>

\* auto end_time = std::chrono::high_resolution_clock::now();
SeqEndTimer ==
    /\ s_pc = "end_time"
    /\ s_end' = s_clock
    /\ s_clock' = s_clock + 1
    /\ s_pc' = "print"
    /\ UNCHANGED <<inVars, parVars, s_i, s_n, s_c, s_adds, s_start, s_stdout, s_exit>>

\* The sequential main without its output line (mutant).
SeqPrint_Silent ==
    /\ s_pc = "print"
    /\ s_clock' = s_clock + 1
    /\ s_pc' = "return"
    /\ UNCHANGED <<inVars, parVars, s_i, s_n, s_c, s_adds, s_start, s_end, s_stdout, s_exit>>

\* std::cout << "Sequential Vector Addition took " << duration.count() << " milliseconds.\n";
SeqPrint ==
    /\ s_pc = "print"
    /\ s_stdout' = Append(s_stdout, <<"Sequential Vector Addition took ",
                                      s_end - s_start, " milliseconds.">>)
    /\ s_clock' = s_clock + 1
    /\ s_pc' = "return"
    /\ UNCHANGED <<inVars, parVars, s_i, s_n, s_c, s_adds, s_start, s_end, s_exit>>

\* return 0;
SeqReturn0 ==
    /\ s_pc = "return"
    /\ s_exit' = 0
    /\ s_clock' = s_clock + 1
    /\ s_pc' = "done"
    /\ UNCHANGED <<inVars, parVars, s_i, s_n, s_c, s_adds, s_start, s_end, s_stdout>>

(***************************************************************************)
(* The two programs and the device                                         *)
(***************************************************************************)

ParHost ==
    \/ MallocA \/ MallocB \/ MallocC
    \/ MemcpyH2D_a \/ MemcpyH2D_b
    \/ GridDim \/ StartTimer \/ Launch
    \/ Synchronize \/ GetLastError \/ CheckError
    \/ MemcpyD2H \/ EndTimer \/ PrintElapsed
    \/ FreeA \/ FreeB \/ FreeC \/ Return0

Kernel ==
    \E blockIdx \in 0 .. MaxN, threadIdx \in 0 .. (BlockDim - 1) :
        vectorAddParallel(blockIdx, threadIdx)

SeqHost ==
    \/ SeqStartTimer \/ SeqCall \/ vectorAddSequential
    \/ SeqEndTimer \/ SeqPrint \/ SeqReturn0

Next == ParHost \/ Kernel \/ DeviceFault \/ SeqHost

Spec == Init /\ [][Next]_vars

\* The host threads keep running and the device schedules every launched
\* thread; a device fault is never forced to happen.
FairSpec ==
    /\ Spec
    /\ WF_vars(ParHost)
    /\ WF_vars(Kernel)
    /\ WF_vars(SeqHost)

(***************************************************************************)
(* Properties                                                              *)
(***************************************************************************)

Range(q) == {q[k] : k \in 1 .. Len(q)}

IsPrefix(p, q) == Len(p) <= Len(q) /\ SubSeq(q, 1, Len(p)) = p

\* Smallest k with k * d >= n.
CeilDiv(n, d) == CHOOSE k \in 0 .. n : k * d >= n /\ (k - 1) * d < n

\* Positions of the parallel main after the error check let it through.
PastCheck == {"d2h", "end_time", "print", "free_a", "free_b", "free_c", "return", "done"}

\* Positions of the parallel main once h_c holds the copied result.
PastD2H == PastCheck \ {"d2h"}

\* Positions of the sequential main once vectorAddSequential has returned.
SeqPastCall == {"end_time", "print", "return", "done"}

SumAt(i) == h_a[i] + h_b[i]

Allocs == {"cudaMalloc d_a", "cudaMalloc d_b", "cudaMalloc d_c"}
InputTransfers == {"cudaMemcpy H2D d_a", "cudaMemcpy H2D d_b"}
Transfers == InputTransfers \cup {"cudaMemcpy D2H d_c"}

\* The host events of a run that passes the error check, and of one that does not.
SuccessLog ==
    <<"cudaMalloc d_a", "cudaMalloc d_b", "cudaMalloc d_c",
      "cudaMemcpy H2D d_a", "cudaMemcpy H2D d_b", "dim3", "now", "launch",
      "cudaDeviceSynchronize", "cudaGetLastError", "check ok",
      "cudaMemcpy D2H d_c", "now", "print",
      "cudaFree d_a", "cudaFree d_b", "cudaFree d_c", "return 0">>

ErrorLog ==
    <<"cudaMalloc d_a", "cudaMalloc d_b", "cudaMalloc d_c",
      "cudaMemcpy H2D d_a", "cudaMemcpy H2D d_b", "dim3", "now", "launch",
      "cudaDeviceSynchronize", "cudaGetLastError", "return 1">>

\* C1: once vectorAddSequential has returned, and once the kernel has been
\* synchronised and the error check found no device error, C[i] = A[i] + B[i]
\* for every i in [0, N): in the sequential output, in the device output
\* buffer, and in the host output after the copy back, whatever the order in
\* which the threads ran.
C1_SumEverywhere ==
    /\ s_pc \in SeqPastCall => \A i \in Indices(size) : s_c[i] = SumAt(i)
    /\ pc = "d2h" => \A i \in Indices(size) : d_c[i] = SumAt(i)
    /\ pc \in PastD2H /\ exit # 1 => \A i \in Indices(size) : h_c[i] = SumAt(i)

C1_Witness ==
    /\ size = MaxN
    /\ s_pc = "done"
    /\ pc = "done" /\ exit = 0
    /\ \A i \in Indices(size) : h_c[i] = SumAt(i) /\ s_c[i] = SumAt(i)

\* C2: for the same inputs, the output of the sequential adder and the output
\* the parallel adder copied back to the host on a run without device error
\* are the same sequence.
C2_SameOutput ==
    (s_pc \in SeqPastCall /\ pc \in PastD2H /\ exit # 1) => h_c = s_c

C2_Witness ==
    /\ size >= 2
    /\ h_a[0] # h_a[1]
    /\ s_pc \in SeqPastCall
    /\ pc = "end_time"
    /\ h_c = s_c

\* C3: when N is not a multiple of the block size, the grid has ceil(N / block
\* size) blocks, no thread reads or writes an index >= N of a, b or c, and on
\* a run the error check lets through every index in [0, N) has been written
\* with A[i] + B[i].
C3_NonMultipleInBounds ==
    size % BlockDim # 0 =>
        /\ (launched \/ "launch" \in Range(log)) => gridSize = CeilDiv(size, BlockDim)
        /\ \A a \in accessed : a[3] \in Indices(size)
        /\ \A i \in Addr \ Indices(size) : writes[i] = 0
        /\ pc = "d2h" =>
              \A i \in Indices(size) : writes[i] >= 1 /\ d_c[i] = SumAt(i)

C3_Witness ==
    /\ size = BlockDim + 1
    /\ gridSize = 2
    /\ pc = "d2h"
    /\ \A i \in Indices(size) : writes[i] >= 1
    /\ \A i \in Addr \ Indices(size) : writes[i] = 0

\* C4: when the error check finds a device error, main ends with exit status
\* 1 after writing one line "CUDA error: <description>" to standard error,
\* the device-to-host copy never happens and h_c keeps its initial contents;
\* nothing is printed to standard output.
C4_ErrorExit ==
    (pc \notin {"malloc_a", "malloc_b", "malloc_c", "h2d_a", "h2d_b", "grid",
                "start_time", "launch", "sync", "getLastError", "check"}
     /\ cudaError # cudaSuccess) =>
        /\ pc = "done"
        /\ exit = 1
        /\ stderr = << <<"CUDA error: ", cudaError>> >>
        /\ cudaError \in {cudaErrorInvalidConfiguration, cudaErrorLaunchFailure}
        /\ "cudaMemcpy D2H d_c" \notin Range(log)
        /\ h_c = [i \in Indices(size) |-> 0]
        /\ stdout = <<>>

C4_Witness ==
    /\ pc = "done" /\ exit = 1
    /\ cudaError = cudaErrorLaunchFailure
    /\ \E i \in Indices(size) : writes[i] = 1
    /\ \E i \in Indices(size) : writes[i] = 0
    /\ h_c = [i \in Indices(size) |-> 0]

\* C5: when main has ended, whichever way, every device buffer that was
\* allocated has been released with cudaFree.
C5_AllReleased ==
    pc = "done" => allocated \subseteq freed

\* C6: with N = 0 both adders end without error and with an empty output: the
\* sequential loop performs no addition, and the parallel main takes the
\* success path (exit 0, nothing on standard error).
C6_EmptyInputNoError ==
    size = 0 =>
        /\ s_pc = "done" => s_adds = 0 /\ s_c = <<>> /\ s_exit = 0
        /\ pc = "done" => exit = 0 /\ stderr = <<>> /\ h_c = <<>>

\* The host events strictly between the two timestamps.
Timed == SubSeq(log, start_time + 1, end_time - 1)

\* The host events before the start timestamp.
BeforeStart == SubSeq(log, 1, start_time - 1)

ParOutcome ==
    \/ /\ exit = 0
       /\ Len(stdout) = 1
       /\ stdout[1][1] = "Parallel Vector Addition took "
       /\ stdout[1][2] \in Nat
       /\ stdout[1][3] = " milliseconds."
       /\ stderr = <<>>
    \/ /\ exit = 1
       /\ cudaError # cudaSuccess
       /\ Len(stderr) = 1
       /\ stdout = <<>>

SeqOutcome ==
    /\ s_exit = 0
    /\ Len(s_stdout) = 1
    /\ s_stdout[1][1] = "Sequential Vector Addition took "
    /\ s_stdout[1][2] \in Nat
    /\ s_stdout[1][3] = " milliseconds."

\* C8: every run of either program terminates, and a finished run is either
\* exit status 0 with exactly one elapsed-time line on standard output, or
\* (parallel program only, and only after a device error) exit status 1 with
\* a message on standard error and no elapsed-time line.
C8_TerminatesWithOneOutcome ==
    /\ <>(pc = "done" /\ s_pc = "done")
    /\ [](pc = "done" => ParOutcome)
    /\ [](s_pc = "done" => SeqOutcome)

C8_Witness ==
    /\ pc = "done" /\ s_pc = "done"
    /\ exit = 1 /\ s_exit = 0
    /\ size > 0
    /\ Len(s_stdout) = 1 /\ stdout = <<>>

\* C9: two different threads never compute the same global index, a thread
\* touches only the index it computed, no element of c is written twice, on
\* a run without device error every element of c in [0, N) is written exactly
\* once by the time the synchronisation can return, and the inputs (host and
\* device copies) are not written while the kernel runs.
C9_OneWriterPerElement ==
    /\ [](/\ \A u \in Threads, v \in Threads :
                u # v => GlobalIndex(u[1], u[2]) # GlobalIndex(v[1], v[2])
          /\ \A a \in accessed : a[3] = a[2] + BlockDim * a[1]
          /\ \A a \in accessed, b \in accessed : a[3] = b[3] => a = b
          /\ \A i \in Addr : writes[i] <= 1
          /\ (launched /\ pending = {} /\ pc = "sync" /\ lastError = cudaSuccess) =>
                 \A i \in Indices(size) : writes[i] = 1
          /\ pc = "d2h" => \A i \in Indices(size) : writes[i] = 1)
    /\ [][h_a' = h_a /\ h_b' = h_b]_vars
    /\ [][pending # {} => (d_a' = d_a /\ d_b' = d_b /\ d_a = h_a /\ d_b = h_b)]_vars

C9_Witness ==
    /\ size = MaxN
    /\ launched /\ pending = {} /\ pc = "sync" /\ lastError = cudaSuccess
    /\ \A i \in Indices(size) : writes[i] = 1
    /\ Cardinality(accessed) = size

\* C10: the host steps of the parallel main happen in the order allocate,
\* input transfers, launch, synchronisation, error check, copy back, release;
\* the kernel is launched only when both inputs are on the device; and while
\* any launched thread is still running the host is waiting in the
\* synchronisation: it has not checked the error status, not read the device
\* output and not released a buffer.
C10_HostOrder ==
    /\ IsPrefix(log, SuccessLog) \/ IsPrefix(log, ErrorLog)
    /\ "launch" \in Range(log) => InputTransfers \subseteq Range(log)
    /\ pending # {} =>
          /\ pc = "sync"
          /\ d_a = h_a /\ d_b = h_b
          /\ freed = {}
          /\ Range(log) \cap {"cudaGetLastError", "cudaMemcpy D2H d_c",
                              "cudaFree d_a", "cudaFree d_b", "cudaFree d_c"} = {}

C10_Witness ==
    /\ pc = "sync"
    /\ pending # {}
    /\ Cardinality(pending) < gridSize * BlockDim
    /\ \E i \in Indices(size) : writes[i] = 1

====
